---- MODULE Spec2Model ----
(***************************************************************************)
(* Article-generation pipeline of aiwriter-backend: one Job row, the       *)
(* Article rows that belong to it, the executions of                       *)
(* ArticleGenerator.generate_article run against it, the dispatch to the   *)
(* destination site (WebhookService.send_article_to_wordpress) and the     *)
(* /publish endpoint (WebhookService.publish_article).                     *)
(*                                                                         *)
(* Python values are tagged records: None, S(tokens) for str, L(items) for *)
(* list, D(pairs) for dict (ordered <<key, value>> pairs), N(n) for int.   *)
(* A str is the sequence of its characters; article HTML is the sequence   *)
(* of its top-level pieces (" " whitespace, "p" paragraph, "h1:x"/"h2:x"/  *)
(* "h3:x" heading with text x, "cta" the call-to-action block).            *)
(***************************************************************************)
EXTENDS Integers, Sequences, FiniteSets, TLC

\* ------------------------------------------------------------------ bounds
MaxRuns == 1
MaxPublish == 1
MaxUserImages == 2
MaxJobs == 2
MaxImagesPerArticle == 2
MaxScheduled == 2

\* ------------------------------------------------------- program constants
MetaTitleMax == 60
MetaDescriptionMax == 155
ImageCostCents == 4

\* ------------------------------------------------------------ Python values
None == [t |-> "none"]
S(x) == [t |-> "str", s |-> x]
L(x) == [t |-> "list", l |-> x]
D(x) == [t |-> "dict", d |-> x]
N(x) == [t |-> "num", n |-> x]

Truthy(v) ==
    CASE v.t = "none" -> FALSE
      [] v.t = "str"  -> Len(v.s) > 0
      [] v.t = "list" -> Len(v.l) > 0
      [] v.t = "dict" -> Len(v.d) > 0
      [] v.t = "num"  -> v.n # 0

Min(a, b) == IF a < b THEN a ELSE b

Prefix(seq, n) == SubSeq(seq, 1, Min(n, Len(seq)))

Chars(n, c) == [i \in 1..n |-> c]

\* dict.get(key): the value stored under key, None when the key is absent
DictGet(d, key) ==
    IF \E i \in 1..Len(d) : d[i][1] = key
    THEN d[CHOOSE i \in 1..Len(d) : d[i][1] = key][2]
    ELSE None

\* str.lower() on the key names that occur in model output
Lower(k) ==
    CASE k = "Title"        -> "title"
      [] k = "TITLE"        -> "title"
      [] k = "Article_HTML" -> "article_html"
      [] k = "FAQ"          -> "faq"
      [] k = "Meta"         -> "meta"
      [] OTHER              -> k

\* str.strip() on tokenised text: drop leading and trailing whitespace pieces
RECURSIVE LStrip(_)
LStrip(s) == IF s # <<>> /\ Head(s) = " " THEN LStrip(Tail(s)) ELSE s

RECURSIVE RStrip(_)
RStrip(s) ==
    IF s # <<>> /\ s[Len(s)] = " " THEN RStrip(SubSeq(s, 1, Len(s) - 1)) ELSE s

\* a strip that keeps the whitespace
StripNothing(s) == s

Strip(s) == RStrip(LStrip(s))

\* ---------------------------------------------------------------- headings
IsH1(tok) == tok \in {"h1:A", "h1:"}
IsH2(tok) == tok \in {"h2:B", "h2:C", "h2:"}
IsH3(tok) == tok \in {"h3:D"}

\* inner text of a heading piece after re.sub(r"<[^>]+>", "", ...).strip()
HeadingText(tok) ==
    CASE tok = "h1:A" -> <<"A">>
      [] tok = "h2:B" -> <<"B">>
      [] tok = "h2:C" -> <<"C">>
      [] tok = "h3:D" -> <<"D">>
      [] OTHER        -> <<>>

\* the position of the first match in a left-to-right scan, 0 for none
FirstIndex(hits) ==
    IF \E i \in 1..Len(hits) : hits[i]
    THEN CHOOSE i \in 1..Len(hits) : hits[i] /\ \A j \in 1..(i - 1) : ~hits[j]
    ELSE 0

\* a heading search in document order: the first <h1> or <h2> piece
ExtractFirstHeadingInOrder(html) ==
    IF html.t # "str" THEN None
    ELSE LET m == FirstIndex([i \in 1..Len(html.s) |->
                                 IsH1(html.s[i]) \/ IsH2(html.s[i])])
         IN  IF m = 0 THEN None
             ELSE IF HeadingText(html.s[m]) = <<>> THEN None
             ELSE S(HeadingText(html.s[m]))

\* _extract_first_heading: the first <h1>, else the first <h2>; None when
\* the value is not a str, no heading matches or its text is empty
ExtractFirstHeading(html) ==
    IF html.t # "str" THEN None
    ELSE LET i1 == FirstIndex([i \in 1..Len(html.s) |-> IsH1(html.s[i])])
             i2 == FirstIndex([i \in 1..Len(html.s) |-> IsH2(html.s[i])])
             m  == IF i1 # 0 THEN i1 ELSE i2
         IN  IF m = 0 THEN None
             ELSE IF HeadingText(html.s[m]) = <<>> THEN None
             ELSE S(HeadingText(html.s[m]))

\* _extract_outline: the h2 sections with their h3 children, empty texts skipped
RECURSIVE OutlineSections(_, _)
OutlineSections(toks, acc) ==
    IF toks = <<>> THEN acc
    ELSE LET tok == Head(toks)
         IN  IF (IsH2(tok) \/ IsH3(tok)) /\ HeadingText(tok) # <<>>
             THEN IF IsH2(tok)
                  THEN OutlineSections(Tail(toks),
                           Append(acc, [h2 |-> HeadingText(tok), h3s |-> <<>>]))
                  ELSE IF acc # <<>>
                  THEN OutlineSections(Tail(toks),
                           [acc EXCEPT ![Len(acc)].h3s = Append(@, HeadingText(tok))])
                  ELSE OutlineSections(Tail(toks), acc)
             ELSE OutlineSections(Tail(toks), acc)

ExtractOutline(html) == [sections |-> OutlineSections(html, <<>>)]

\* ------------------------------------------------------- _normalize_result
WrapKeys == <<"article", "result", "data", "payload", "content">>

TitleNames == <<"title", "titel", "headline">>
BodyNames == <<"article_html", "html", "content">>
MetaNames == <<"meta", "metadata">>
FaqNames == <<"faq", "faqs">>
SchemaNames == <<"schema", "jsonld">>

\* "Erfahren Sie alles über " has 24 characters
MetaDescriptionLead == Chars(24, "e")

\* lower_map.get(name.lower()): the last key of the dict whose lower-case
\* form is name; 0 when there is none
LowerMapIndex(cand, name) ==
    IF \E i \in 1..Len(cand) : Lower(cand[i][1]) = name
    THEN CHOOSE i \in 1..Len(cand) :
            /\ Lower(cand[i][1]) = name
            /\ \A j \in (i + 1)..Len(cand) : Lower(cand[j][1]) # name
    ELSE 0

\* get_ci(*names): the value under the first name that has a key
GetCI(cand, names) ==
    LET k == FirstIndex([i \in 1..Len(names) |-> LowerMapIndex(cand, names[i]) # 0])
    IN  IF k = 0 THEN None ELSE cand[LowerMapIndex(cand, names[k])][2]

\* a normalizer that unwraps nothing
UnwrapNothing(raw) == raw

\* the candidate dict after unwrapping at most one wrapper key
Unwrap(raw) ==
    LET k == FirstIndex([i \in 1..Len(WrapKeys) |->
                            DictGet(raw, WrapKeys[i]).t = "dict"])
    IN  IF k = 0 THEN raw ELSE DictGet(raw, WrapKeys[k]).d

\* value[:n]; a TypeError for values that cannot be sliced
Sliceable(v) == v.t \in {"str", "list"}

\* a slice that cuts nothing
SliceNothing(v, n) == v

Slice(v, n) == IF v.t = "str" THEN S(Prefix(v.s, n)) ELSE L(Prefix(v.l, n))

\* str(value) inside an f-string
Format(v) == IF v.t = "str" THEN v.s ELSE <<"?">>

NormFail(msg) == [ok |-> FALSE, error |-> msg]

\* lines 146-152: the schema built when the model gave none
FallbackSchema(title, language, now) ==
    D(<< <<"@context", S(<<"https://schema.org">>)>>,
         <<"@type", S(<<"Article">>)>>,
         <<"headline", title>>,
         <<"datePublished", S(<<now>>)>>,
         <<"inLanguage", S(<<language>>)>> >>)

\* a schema that is built anew on every call
SchemaOfAlwaysBuilt(schema0, title, language, now) ==
    FallbackSchema(title, language, now)

\* lines 144-152: the model's schema when it is a dict, else the fallback
SchemaOf(schema0, title, language, now) ==
    IF schema0.t = "dict" THEN schema0 ELSE FallbackSchema(title, language, now)

NormalizeResult(raw, topic_fallback, language, now) ==
    IF raw.t # "dict" THEN NormFail("Model did not return a JSON object.")
    ELSE
    LET candidate    == Unwrap(raw.d)
        title0       == GetCI(candidate, TitleNames)
        article_html == GetCI(candidate, BodyNames)
    IN
    IF article_html.t # "str" \/ Strip(article_html.s) = <<>>
    THEN NormFail("Missing or invalid 'article_html'.")
    ELSE
    LET heading   == ExtractFirstHeading(article_html)
        title     == IF Truthy(title0) THEN title0
                     ELSE IF Truthy(heading) THEN heading ELSE topic_fallback
        meta0     == GetCI(candidate, MetaNames)
        meta_obj  == IF meta0.t = "dict" THEN meta0.d ELSE <<>>
        mt        == DictGet(meta_obj, "title")
        md        == DictGet(meta_obj, "description")
        needSlice == ~Truthy(mt)
        meta_title == IF Truthy(mt) THEN mt ELSE Slice(title, MetaTitleMax)
        meta_description ==
            IF Truthy(md) THEN md ELSE S(MetaDescriptionLead \o Format(title) \o <<".">>)
        faq0      == GetCI(candidate, FaqNames)
        faq       == IF faq0.t = "list" THEN faq0 ELSE L(<<>>)
        schema0   == GetCI(candidate, SchemaNames)
        schema    == SchemaOf(schema0, title, language, now)
    IN
    IF needSlice /\ ~Sliceable(title) THEN NormFail("TypeError")
    ELSE IF ~Sliceable(meta_title) \/ ~Sliceable(meta_description)
    THEN NormFail("TypeError")
    ELSE [ok |-> TRUE,
          bundle |-> [title |-> title,
                      article_html |-> article_html,
                      meta |-> [title |-> Slice(meta_title, MetaTitleMax),
                                description |-> Slice(meta_description, MetaDescriptionMax)],
                      faq |-> faq,
                      schema |-> schema,
                      outline |-> ExtractOutline(article_html.s)]]

\* ------------------------------------------------------------------ inputs
UserUrls == {"u1", "u2"}
NoImage == "NONE"
CtaUrl == S(<<"https://cta">>)
Topic == S(<<"Z", "e", "l", "t", "e">>)
Language == "de"
Now == "now"
\* the post id in the site's answer to a successful POST
PostId == N(7)

RECURSIVE SeqsUpTo(_, _)
SeqsUpTo(set, n) ==
    IF n = 0 THEN {<<>>}
    ELSE LET shorter == SeqsUpTo(set, n - 1)
         IN  shorter \cup {Append(q, x) : q \in shorter, x \in set}

\* Job.user_images: NULL (create_job stores None for an empty list, written
\* <<>>) or a non-empty list of caller-supplied URLs; lists that differ only
\* by renaming the URLs are taken once (the first URL is "u1")
UserImageLists ==
    { q \in SeqsUpTo(UserUrls, MaxUserImages) : q = <<>> \/ q[1] = "u1" }

\* (include_cta, cta_url) as the request carries them
CtaRequests == { <<FALSE, None>>, <<TRUE, None>>, <<TRUE, CtaUrl>> }

GoodHtml == S(<<"h2:B", "p">>)
FaqEntries == L(<<"qa1", "qa2">>)
ModelSchema == D(<< <<"@type", S(<<"Article">>)>> >>)
LongTitle == S(Chars(MetaTitleMax + 1, "x"))

\* what the provider may return in the JSON tiers
RawFull ==
    D(<< <<"title", S(<<"T">>)>>, <<"article_html", GoodHtml>>,
         <<"meta", D(<< <<"title", S(<<"M">>)>>, <<"description", S(<<"d">>)>> >>)>>,
         <<"faq", FaqEntries>>, <<"schema", ModelSchema>> >>)
RawWrapped ==
    D(<< <<"data", D(<< <<"Title", LongTitle>>, <<"html", GoodHtml>>,
                        <<"FAQ", FaqEntries>> >>)>> >>)
RawBlankBody == D(<< <<"title", S(<<"T">>)>>, <<"article_html", S(<<" ">>)>> >>)
RawNoBody == D(<< <<"title", S(<<"T">>)>>, <<"faq", FaqEntries>> >>)

JsonOutputs == {RawFull, RawWrapped, RawBlankBody, RawNoBody}

\* what the provider may return in the plain-HTML tier
PlainHtmls == {GoodHtml, S(<<>>)}

ProviderErrors == {"ProviderUnavailable"}
ProviderFailures == { [t |-> "error", msg |-> e] : e \in ProviderErrors }

\* what the stock-photo search and the generative image call may answer
PexelsAnswers == {"non200", "nophotos", "exception", "pexels"}
DalleAnswers == {NoImage, "exception", "dalle"}

\* WordPress answers to a POST: 200 with / without a post id, another
\* status, or no answer at all (timeout, connection error)
WpResponses == {"200_id", "200", "500", "exception"}

\* ------------------------------------------------------------------- state
VARIABLES
    apiKey,      \* settings.OPENAI_API_KEY is configured
    job,         \* the Job row
    articles,    \* the Article rows of the job, in id order
    run,         \* the generate_article execution in progress (or the last one)
    nRuns,       \* generate_article calls started so far
    nPublish,    \* publish_article calls served so far
    deliveries,  \* the POSTs send_article_to_wordpress made to the site
    jobs,        \* several jobs: the rows of the jobs table, by id
    articleRows, \* several jobs: the rows of the articles table, in id order
    tasks,       \* several jobs: the background task create_job started
    usage        \* Usage.articles_generated of the site for the month

poolVars == <<jobs, articleRows, tasks, usage>>

vars == <<apiKey, job, articles, run, nRuns, nPublish, deliveries,
          jobs, articleRows, tasks, usage>>

JobIds == 1..MaxJobs

\* jobs[j].status = "none": no create_job call for j yet; "rejected": the call
\* answered success=False and added no row
NoJob == [status |-> "none", images |-> FALSE, session |-> 0]

NoTask == [pc |-> "none", result |-> "none", article_id |-> 0]

\* no Job created, no usage recorded
PoolIdle ==
    /\ jobs = [j \in JobIds |-> NoJob]
    /\ tasks = [j \in JobIds |-> NoTask]
    /\ articleRows = <<>>
    /\ usage = 0

IdleRun ==
    [pc |-> "idle", attempts |-> <<>>, raw |-> None, payload |-> None,
     image_urls |-> <<>>, article_id |-> 0, pend |-> None,
     steps |-> <<>>, result |-> "none"]

\* the Job row as JobService.create_job stores it (status "pending")
JobRows ==
    { [status |-> "pending", error |-> "", finished_at |-> FALSE,
       topic |-> Topic, language |-> Language,
       include_faq |-> f, include_cta |-> cta[1], cta_url |-> cta[2],
       user_images |-> imgs, images |-> ai,
       requested_images |-> IF ai THEN 1 ELSE 0,
       template |-> None, style_preset |-> None] :
         f \in BOOLEAN, cta \in CtaRequests,
         imgs \in UserImageLists, ai \in BOOLEAN }

Init ==
    /\ apiKey \in BOOLEAN
    /\ PoolIdle
    /\ job \in JobRows
    /\ articles = <<>>
    /\ run = IdleRun
    /\ nRuns = 0
    /\ nPublish = 0
    /\ deliveries = <<>>

\* ------------------------------------------------------------ the Article row
\* the row when status=DRAFT is left out: the column default is READY
NewArticleDefaultStatus(n) ==
    [created_by |-> n, status |-> "ready", topic |-> job.topic,
     language |-> job.language,
     article_html |-> None, meta_title |-> None, meta_description |-> None,
     faq_json |-> None, schema_json |-> None, outline_json |-> None,
     image_urls_json |-> <<>>, image_cost_cents |-> 0]

\* Article(job_id, license_id, topic, language, status=DRAFT); the other
\* columns take their defaults
NewArticle(n) ==
    [created_by |-> n, status |-> "draft", topic |-> job.topic,
     language |-> job.language,
     article_html |-> None, meta_title |-> None, meta_description |-> None,
     faq_json |-> None, schema_json |-> None, outline_json |-> None,
     image_urls_json |-> <<>>, image_cost_cents |-> 0]

\* query(Article).filter(Article.job_id == job_id).first(): 0 when no row
FirstArticle == IF articles = <<>> THEN 0 ELSE 1

Step(r, name) == [r EXCEPT !.steps = Append(@, name)]

\* the execution returns: its locals are gone, the model keeps what it did
Return(r, res) ==
    [IdleRun EXCEPT !.result = res, !.steps = r.steps, !.attempts = r.attempts,
                    !.article_id = r.article_id]

\* an except branch that marks the Job but forgets the Article
FailedJobOnly(r, msg) ==
    /\ job' = [job EXCEPT !.status = "failed", !.error = msg, !.finished_at = TRUE]
    /\ articles' = articles
    /\ run' = [IdleRun EXCEPT !.result = "False", !.steps = Append(r.steps, "failed"),
                              !.attempts = r.attempts, !.article_id = r.article_id]

\* ------------------------------------------- generate_article: except branch
\* rollback, Job -> failed with str(exc), first Article of the job -> failed,
\* return False
Failed(r, msg) ==
    /\ job' = [job EXCEPT !.status = "failed", !.error = msg, !.finished_at = TRUE]
    /\ articles' = IF FirstArticle = 0 THEN articles
                   ELSE [articles EXCEPT ![FirstArticle].status = "failed"]
    /\ run' = Return(Step(r, "failed"), "False")

\* an order in which the bundle is dispatched before it is committed
NextPcDispatchFirst(pc) ==
    CASE pc = "completion" -> "normalize"
      [] pc = "normalize"  -> "images"
      [] pc = "images"     -> "dispatch"
      [] pc = "dispatch"   -> "idle"
      [] pc = "persist"    -> "idle"

\* the order of the steps of generate_article after the Article row exists:
\* _generate_payload (completion, normalize), images, commit, dispatch
NextPc(pc) ==
    CASE pc = "completion" -> "normalize"
      [] pc = "normalize"  -> "images"
      [] pc = "images"     -> "persist"
      [] pc = "persist"    -> "dispatch"
      [] pc = "dispatch"   -> "idle"

\* ------------------------------------------- generate_article: lines 276-310
Start ==
    /\ run.pc = "idle"
    /\ nRuns < MaxRuns
    /\ nRuns' = nRuns + 1
    /\ IF ~apiKey
       THEN /\ run' = [IdleRun EXCEPT !.result = "False"]
            /\ UNCHANGED <<job, articles>>
       ELSE /\ job' = [job EXCEPT !.status = "processing"]
            /\ articles' = Append(articles, NewArticle(nRuns + 1))
            /\ run' = [IdleRun EXCEPT !.pc = "completion",
                                      !.article_id = Len(articles) + 1,
                                      !.steps = <<"start">>]
    /\ UNCHANGED <<apiKey, nPublish, deliveries>>
    /\ UNCHANGED poolVars

\* a fallback chain without the plain-HTML tier
TierNamesNoPlainHtml == <<"json_schema", "json_object">>

\* ------------------------------------------- run_text_structured, one tier
\* tier 1 strict JSON schema, tier 2 loose JSON object, tier 3 plain HTML

TierNames == <<"json_schema", "json_object", "plain_html">>

TierCount == Len(TierNames)

\* the plain-HTML tier hands the HTML on as the body of an otherwise empty bundle
TierOutputs(tier) ==
    IF TierNames[tier] = "plain_html"
    THEN { D(<< <<"article_html", h>> >>) : h \in PlainHtmls }
    ELSE JsonOutputs

\* "ok" when the tier produced a usable bundle, else the tier's error
TierOutcome(out) ==
    IF out.t = "error" THEN out.msg
    ELSE LET n == NormalizeResult(out, job.topic, job.language, Now)
         IN  IF n.ok THEN "ok" ELSE n.error

CurrentTier == Len(run.attempts) + 1

Completion ==
    /\ run.pc = "completion"
    /\ \E out \in ProviderFailures \cup TierOutputs(CurrentTier) :
         LET res == TierOutcome(out)
             r1  == [run EXCEPT !.attempts =
                        Append(@, [tier |-> TierNames[CurrentTier], outcome |-> res])]
         IN  IF res = "ok"
             THEN /\ run' = [Step(r1, "completion") EXCEPT !.pc = NextPc(run.pc),
                                                           !.raw = out]
                  /\ UNCHANGED <<job, articles>>
             ELSE IF CurrentTier < TierCount
             THEN /\ run' = r1
                  /\ UNCHANGED <<job, articles>>
             ELSE Failed(r1, res)
    /\ UNCHANGED <<apiKey, nRuns, nPublish, deliveries>>
    /\ UNCHANGED poolVars

\* ------------------------------- _generate_payload line 442, lines 320-347
CtaBlock == <<" ", "cta">>

CtaRequested == job.include_cta /\ Truthy(job.cta_url)

\* int(job.template) when a template is stored, else None
Category == IF Truthy(job.template) THEN job.template ELSE None

Tags == IF Truthy(job.style_preset) THEN job.style_preset ELSE None

\* lines 320-331: the Article attributes assigned from the normalized bundle
PendingArticle(a, b) ==
    [a EXCEPT !.topic = b.title,
              !.article_html = b.article_html,
              !.meta_title = b.meta.title,
              !.meta_description = b.meta.description,
              !.faq_json = IF job.include_faq THEN b.faq ELSE L(<<>>),
              !.schema_json = b.schema,
              !.outline_json = b.outline]

\* lines 333-347: the payload dict after the CTA, category and tags were set
BundlePayload(b) ==
    [title |-> b.title,
     article_html |-> IF CtaRequested THEN S(b.article_html.s \o CtaBlock)
                      ELSE b.article_html,
     meta |-> b.meta, faq |-> b.faq,
     schema |-> b.schema, outline |-> b.outline,
     category |-> Category, tags |-> Tags,
     featured_image |-> NoImage,
     image_urls |-> <<>>]

Normalize ==
    /\ run.pc = "normalize"
    /\ LET n == NormalizeResult(run.raw, job.topic, job.language, Now)
       IN  IF ~n.ok THEN Failed(run, n.error)
           ELSE /\ run' = [Step(run, "normalize") EXCEPT
                       !.pc = NextPc(run.pc),
                       !.raw = None,
                       !.pend = PendingArticle(articles[run.article_id], n.bundle),
                       !.payload = BundlePayload(n.bundle)]
                /\ UNCHANGED <<job, articles>>
    /\ UNCHANGED <<apiKey, nRuns, nPublish, deliveries>>
    /\ UNCHANGED poolVars

\* ------------------------------------------------------------ generate_images
\* get_image_topic_from_openai: the derived phrase, or the topic itself when
\* the text call raises
GetImageTopic(phraseOk) == IF phraseOk THEN "phrase" ELSE "topic"

\* get_image_from_pexels: the photo URL, None for a non-200 answer, an empty
\* result or an exception
GetImageFromPexels(keyword, answer) ==
    IF answer \in {"non200", "nophotos", "exception"} THEN NoImage ELSE answer

\* generate_images with the generative call left unguarded
GenerateImagesUnguarded(requested, phraseOk, pexels, dalle) ==
    IF requested <= 0 THEN [raised |-> FALSE, urls |-> <<>>]
    ELSE LET pexels_url == GetImageFromPexels(GetImageTopic(phraseOk), pexels)
         IN  IF pexels_url # NoImage
             THEN [raised |-> FALSE, urls |-> Prefix(<<pexels_url>>, 1)]
             ELSE IF dalle = "exception"
             THEN [raised |-> TRUE, urls |-> <<>>]
             ELSE IF dalle = NoImage THEN [raised |-> FALSE, urls |-> <<>>]
             ELSE [raised |-> FALSE, urls |-> Prefix(<<dalle>>, 1)]

\* at most one URL: the stock photo when the search finds one, else the
\* generated image when the call returns a URL; provider failures give [];
\* raised tells whether an exception leaves the function (it never does)
GenerateImages(requested, phraseOk, pexels, dalle) ==
    IF requested <= 0 THEN [raised |-> FALSE, urls |-> <<>>]
    ELSE LET pexels_url == GetImageFromPexels(GetImageTopic(phraseOk), pexels)
         IN  IF pexels_url # NoImage
             THEN [raised |-> FALSE, urls |-> Prefix(<<pexels_url>>, 1)]
             ELSE IF dalle \in {NoImage, "exception"}
             THEN [raised |-> FALSE, urls |-> <<>>]
             ELSE [raised |-> FALSE, urls |-> Prefix(<<dalle>>, 1)]

\* lines 368-389: the featured image and the content images of a URL list
FeaturedOf(image_urls) == IF Len(image_urls) >= 1 THEN image_urls[1] ELSE NoImage

\* a split that leaves the featured image among the content images
ContentOfWithFeatured(image_urls) == image_urls

ContentOf(image_urls) == IF Len(image_urls) > 1 THEN Tail(image_urls) ELSE <<>>

\* a charge that does not exempt caller-supplied images
ImageCostAlwaysCharged(user, ai, urls) == Len(urls) * ImageCostCents

\* article.image_cost_cents: 0 for caller-supplied images, 4 cents for each
\* sourced image, 0 without images
ImageCost(user, ai, urls) == IF ~user /\ ai THEN Len(urls) * ImageCostCents ELSE 0

\* ------------------------------------------- generate_article: lines 349-389
Images ==
    /\ run.pc = "images"
    /\ \E phraseOk \in BOOLEAN, pexels \in PexelsAnswers, dalle \in DalleAnswers :
         LET user == job.user_images # <<>>
             ai   == job.images /\ job.requested_images > 0
             gen  == GenerateImages(job.requested_images, phraseOk, pexels, dalle)
             urls == IF user THEN job.user_images
                     ELSE IF ai THEN gen.urls
                     ELSE <<>>
             cost == ImageCost(user, ai, urls)
         IN  IF ~user /\ ai /\ gen.raised
             THEN Failed(run, "ImageGenerationFailed")
             ELSE /\ run' = [Step(run, "images") EXCEPT
                        !.pc = NextPc(run.pc),
                        !.image_urls = urls,
                        !.pend = [@ EXCEPT !.image_urls_json = urls,
                                           !.image_cost_cents = cost],
                        !.payload = [@ EXCEPT !.featured_image = FeaturedOf(urls),
                                              !.image_urls = ContentOf(urls)]]
                  /\ UNCHANGED <<job, articles>>
    /\ UNCHANGED <<apiKey, nRuns, nPublish, deliveries>>
    /\ UNCHANGED poolVars

\* a commit that stores the Article and leaves the Job in processing
PersistArticleOnly ==
    /\ run.pc = "persist"
    /\ articles' = [articles EXCEPT
                       ![run.article_id] = [run.pend EXCEPT !.status = "ready"]]
    /\ job' = job
    /\ run' = [Step(run, "persist") EXCEPT !.pc = NextPc(run.pc), !.pend = None]
    /\ UNCHANGED <<apiKey, nRuns, nPublish, deliveries>>
    /\ UNCHANGED poolVars

\* ------------------------------------------- generate_article: lines 391-397
Persist ==
    /\ run.pc = "persist"
    /\ articles' = [articles EXCEPT
                       ![run.article_id] = [run.pend EXCEPT !.status = "ready"]]
    /\ job' = [job EXCEPT !.status = "completed", !.finished_at = TRUE]
    /\ run' = [Step(run, "persist") EXCEPT !.pc = NextPc(run.pc), !.pend = None]
    /\ UNCHANGED <<apiKey, nRuns, nPublish, deliveries>>
    /\ UNCHANGED poolVars

\* ------------------------------------- WebhookService._build_article_payload
Or(a, b) == IF Truthy(a) THEN a ELSE b

\* _coerce_json(value, default) for a JSON column that holds None or a list/dict
CoerceJson(value, default) == IF value.t = "none" THEN default ELSE value

\* "Erfahren Sie mehr über " has 23 characters
FallbackDescriptionLead == Chars(23, "m")

WithoutUrl(urls, u) == SelectSeq(urls, LAMBDA x : x # u)

\* payload is the dict generate_article passes as payload_override; the keys
\* it never sets (content, content_html, meta_title, meta_description,
\* schema_data, include_faq) read as absent
BuildArticlePayload(article, payload) ==
    LET title   == Or(payload.title, Or(article.topic, S(<<"Untitled Article">>)))
        content == Or(payload.article_html, Or(article.article_html, S(<<>>)))
        meta_title ==
            Or(payload.meta.title,
               IF Truthy(article.meta_title) THEN article.meta_title
               ELSE Slice(title, MetaTitleMax))
        meta_description ==
            Or(payload.meta.description,
               IF Truthy(article.meta_description) THEN article.meta_description
               ELSE S(Prefix(FallbackDescriptionLead \o Format(title) \o <<".">>,
                             MetaDescriptionMax)))
        faq     == IF payload.faq.t = "list" THEN payload.faq
                   ELSE CoerceJson(article.faq_json, L(<<>>))
        schema  == IF Truthy(payload.schema) /\ payload.schema.t \in {"dict", "list"}
                   THEN payload.schema
                   ELSE CoerceJson(article.schema_json, D(<<>>))
        featured0 == IF payload.featured_image \in {NoImage, ""} THEN NoImage
                     ELSE payload.featured_image
        content0  == IF featured0 # NoImage /\ payload.image_urls # <<>>
                     THEN WithoutUrl(payload.image_urls, featured0)
                     ELSE payload.image_urls
        stored    == article.image_urls_json
        featured  == IF featured0 # NoImage THEN featured0
                     ELSE IF Len(stored) >= 1 THEN stored[1] ELSE NoImage
        content_image_urls ==
            IF featured0 # NoImage THEN content0
            ELSE IF Len(stored) = 1 THEN <<>>
            ELSE IF Len(stored) > 1 THEN WithoutUrl(Tail(stored), stored[1])
            ELSE content0
    IN  [title |-> title, content |-> content,
         meta_title |-> meta_title, meta_description |-> meta_description,
         faq |-> faq, schema_data |-> schema,
         featured_image |-> featured, image_urls |-> content_image_urls,
         category |-> payload.category, tags |-> payload.tags,
         include_faq |-> TRUE]

\* article.outline_json["wordpress_post_id"] = post_id, or a fresh dict
WithPostId(outline, post_id) ==
    IF outline = None THEN [wordpress_post_id |-> post_id]
    ELSE [k \in DOMAIN outline \cup {"wordpress_post_id"} |->
             IF k = "wordpress_post_id" THEN post_id ELSE outline[k]]

\* a dispatch that leaves the Article ready whatever the site answers
DeliveredStatusAlwaysReady(resp) == "ready"

\* send_article_to_wordpress: the Article status written after the POST
DeliveredStatus(resp) == IF resp \in {"200_id", "200"} THEN "ready" ELSE "failed"

\* --------------- generate_article lines 404-406, send_article_to_wordpress
Dispatch ==
    /\ run.pc = "dispatch"
    /\ \E resp \in WpResponses :
         LET a    == articles[run.article_id]
             data == BuildArticlePayload(a, run.payload)
             a1   == IF resp = "200_id"
                     THEN [a EXCEPT !.outline_json = WithPostId(@, PostId),
                                    !.status = DeliveredStatus(resp)]
                     ELSE [a EXCEPT !.status = DeliveredStatus(resp)]
         IN  /\ deliveries' = Append(deliveries,
                    [run |-> nRuns, article_id |-> run.article_id,
                     data |-> data, response |-> resp])
             /\ articles' = [articles EXCEPT ![run.article_id] = a1]
    /\ run' = Return(Step(run, "dispatch"), "True")
    /\ UNCHANGED <<apiKey, job, nRuns, nPublish>>
    /\ UNCHANGED poolVars

\* ------------------------------------------- WebhookService.publish_article
PublishArticle ==
    /\ nPublish < MaxPublish
    /\ nPublish' = nPublish + 1
    /\ \E siteFound \in BOOLEAN, signatureOk \in BOOLEAN, jobFound \in BOOLEAN,
          resp \in WpResponses :
         IF ~siteFound \/ ~signatureOk \/ ~jobFound
         THEN UNCHANGED <<job, articles>>
         ELSE IF resp \in {"200_id", "200"}
         THEN /\ articles' =
                    IF FirstArticle # 0 /\ resp = "200_id"
                    THEN [articles EXCEPT ![FirstArticle].outline_json =
                                              WithPostId(@, PostId)]
                    ELSE articles
              /\ job' = [job EXCEPT !.status = "completed", !.finished_at = TRUE]
         ELSE /\ job' = [job EXCEPT !.status = "failed",
                            !.error = IF resp = "500" THEN "WordPress error: 500"
                                      ELSE "ConnectionError",
                            !.finished_at = TRUE]
              /\ UNCHANGED articles
    /\ UNCHANGED <<apiKey, run, nRuns, deliveries>>
    /\ UNCHANGED poolVars

Next ==
    \/ Start
    \/ Completion
    \/ Normalize
    \/ Images
    \/ Persist
    \/ Dispatch
    \/ PublishArticle

Spec == Init /\ [][Next]_vars

\* a started execution is not left waiting for ever: every awaited call
\* returns or times out and the event loop resumes a coroutine that is ready.
\* Normalize is enabled exactly when run.pc = "normalize", so its weak
\* fairness is written with that guard in the place of ENABLED
Progress == Completion \/ Images \/ Persist \/ Dispatch

NormalizeFair == []<>(run.pc # "normalize") \/ []<><<Normalize>>_vars

\* the jobs of the fair specification: the options that only change the
\* text of the bundle (FAQ, CTA) are fixed
FairInit ==
    /\ Init
    /\ job.include_faq
    /\ ~job.include_cta /\ job.cta_url = None
    /\ Len(job.user_images) # 1

FairSpec == FairInit /\ [][Next]_vars /\ WF_vars(Progress) /\ NormalizeFair

\* ===================================================== normalizer on shapes
\* _normalize_result applied to raw model outputs of many shapes, and the
\* payload the dispatcher builds from the resulting bundle
Absent == [t |-> "absent"]

Field(key, v) == IF v.t = "absent" THEN <<>> ELSE << <<key, v>> >>

LongMetaTitle == S(Chars(MetaTitleMax + 1, "m"))
LongMetaDescription == S(Chars(MetaDescriptionMax + 1, "d"))

ShapeTitles == {Absent, S(<<"T">>), LongTitle, S(<<>>), N(5)}
ShapeBodyKeys == {"article_html", "Article_HTML", "content"}
ShapeBodies == {Absent, None, S(<<>>), S(<<" ", " ">>), N(5), GoodHtml, S(<<"p">>)}
ShapeMetas ==
    { Absent, S(<<"m">>),
      D(<< <<"title", S(<<"M">>)>>, <<"description", S(<<"d">>)>> >>),
      D(<< <<"title", LongMetaTitle>>, <<"description", LongMetaDescription>> >>),
      D(<< <<"title", N(7)>> >>) }
ShapeFaqs == {Absent, S(<<"f">>)}
ShapeSchemas == {Absent, L(<<>>)}
ShapeWraps == {"none", "extra", "data", "Data"}

Shapes ==
    [title : ShapeTitles, body_key : ShapeBodyKeys, body : ShapeBodies,
     meta : ShapeMetas, faq : ShapeFaqs, schema : ShapeSchemas, wrap : ShapeWraps]

\* the JSON value of a shape
RawOf(sh) ==
    LET inner == Field("title", sh.title) \o Field(sh.body_key, sh.body)
                 \o Field("Meta", sh.meta) \o Field("FAQ", sh.faq)
                 \o Field("schema", sh.schema)
    IN  CASE sh.wrap = "none"  -> D(inner)
          [] sh.wrap = "extra" -> D(<< <<"note", N(1)>> >> \o inner)
          [] sh.wrap = "data"  -> D(<< <<"data", D(inner)>> >>)
          [] sh.wrap = "Data"  -> D(<< <<"Data", D(inner)>> >>)

\* model outputs that are not a JSON object
NonObjects == {None, L(<<>>), S(<<"text">>)}

NormJobs ==
    { j \in JobRows : /\ j.user_images = <<>> /\ ~j.images
                      /\ j.include_faq = (j.include_cta /\ Truthy(j.cta_url))
                      /\ (j.include_cta => Truthy(j.cta_url)) }

NormInit ==
    /\ apiKey = TRUE
    /\ PoolIdle
    /\ job \in NormJobs
    /\ articles = <<>>
    /\ \/ \E sh \in Shapes :
             run = [IdleRun EXCEPT !.pc = "norm", !.raw = RawOf(sh), !.attempts = sh]
       \/ \E r \in NonObjects :
             run = [IdleRun EXCEPT !.pc = "norm", !.raw = r, !.attempts = Absent]
    /\ nRuns = 0
    /\ nPublish = 0
    /\ deliveries = <<>>

\* _generate_payload line 442 on the raw output
NormApply ==
    /\ run.pc = "norm"
    /\ LET n == NormalizeResult(run.raw, job.topic, job.language, Now)
       IN  run' = [run EXCEPT !.pc = IF n.ok THEN "normed" ELSE "norm_failed",
                              !.pend = n]
    /\ UNCHANGED <<apiKey, job, articles, nRuns, nPublish, deliveries>>
    /\ UNCHANGED poolVars

\* lines 320-347 and _build_article_payload on the normalized bundle
NormDeliver ==
    /\ run.pc = "normed"
    /\ LET b == run.pend.bundle
       IN  deliveries' = <<[run |-> 0, article_id |-> 0, response |-> "200",
                            data |-> BuildArticlePayload(
                                        PendingArticle(NewArticle(0), b),
                                        BundlePayload(b))]>>
    /\ run' = [run EXCEPT !.pc = "delivered"]
    /\ UNCHANGED <<apiKey, job, articles, nRuns, nPublish>>
    /\ UNCHANGED poolVars

NormNext == NormApply \/ NormDeliver

SpecNorm == NormInit /\ [][NormNext]_vars

\* --------------------------------------- _normalize_result: relations
\* Model outputs that differ in the wrapper, the title, the headings of the
\* body and the faq; the normalizer is applied to the output, to the object
\* the output wraps, and to its own bundle.

AlgTitleKeys == {"title", "Headline"}
AlgTitles == {Absent, S(<<"T">>), S(<<>>), LongTitle}

\* bodies by their headings, in document order
AlgBodies ==
    { GoodHtml, S(<<"p">>), S(<<"h3:D", "p">>),
      S(<<"h1:A", "h2:B">>), S(<<"h2:B", "h1:A">>), S(<<"h2:B", "h2:C">>),
      S(<<"h1:", "h2:B">>), S(<<"h2:", "h2:C">>) }

AlgFaqs ==
    { Absent, None, S(<<"f">>), FaqEntries,
      D(<< <<"items", FaqEntries>> >>), D(<< <<"list", FaqEntries>> >>),
      D(<< <<"entries", FaqEntries>> >>), D(<< <<"other", FaqEntries>> >>) }

AlgMetas ==
    { Absent,
      D(<< <<"title", S(<<"M">>)>>, <<"description", S(<<"d">>)>> >>),
      D(<< <<"title", LongMetaTitle>>, <<"description", LongMetaDescription>> >>) }
AlgSchemas == {Absent, ModelSchema}

\* "double": two levels of wrappers; "two": two wrappers side by side, the
\* later one of the fixed order first in the object; "nondict": an earlier
\* wrapper key whose value is no dict
AlgWraps ==
    {"none", "article", "result", "data", "payload", "content",
     "double", "two", "nondict"}

AlgShapes ==
    [title_key : AlgTitleKeys, title : AlgTitles, body : AlgBodies,
     faq : AlgFaqs, meta : AlgMetas, schema : AlgSchemas, wrap : AlgWraps]

\* the object the model meant
InnerOf(sh) ==
    Field(sh.title_key, sh.title) \o Field("article_html", sh.body)
    \o Field("meta", sh.meta) \o Field("faq", sh.faq) \o Field("schema", sh.schema)

\* the object under the other wrapper of the shape "two"
OtherInner == << <<"title", S(<<"O">>)>>, <<"article_html", S(<<"p">>)>> >>

\* the JSON value of a shape
AlgRawOf(sh) ==
    CASE sh.wrap = "none"    -> D(InnerOf(sh))
      [] sh.wrap = "double"  -> D(<< <<"data", D(<< <<"result", D(InnerOf(sh))>> >>)>> >>)
      [] sh.wrap = "two"     -> D(<< <<"data", D(InnerOf(sh))>>,
                                     <<"article", D(OtherInner)>> >>)
      [] sh.wrap = "nondict" -> D(<< <<"article", S(<<"a">>)>>,
                                     <<"data", D(InnerOf(sh))>> >>)
      [] OTHER               -> D(<< <<sh.wrap, D(InnerOf(sh))>> >>)

\* the un-nested object of a shape: what the first dict-typed wrapper in the
\* fixed order holds ("double": the object two levels down)
AlgFlatOf(sh) ==
    IF sh.wrap = "two" THEN D(OtherInner) ELSE D(InnerOf(sh))

\* the bundle as the JSON object a caller would feed back
BundleAsRaw(b) ==
    D(<< <<"title", b.title>>, <<"article_html", b.article_html>>,
         <<"meta", D(<< <<"title", b.meta.title>>,
                        <<"description", b.meta.description>> >>)>>,
         <<"faq", b.faq>>, <<"schema", b.schema>>,
         <<"outline", D(<< <<"sections", L(b.outline.sections)>> >>)>> >>)

\* simple_article_cli.normalize_result, lines 116-123: the faq coerced to a
\* flat list, a dict being replaced by its items, list or entries value
CliFaq(faq0) ==
    LET f1 == IF faq0.t \in {"absent", "none"} THEN L(<<>>) ELSE faq0
        f2 == IF f1.t # "dict" THEN f1
              ELSE Or(DictGet(f1.d, "items"),
                      Or(DictGet(f1.d, "list"),
                         Or(DictGet(f1.d, "entries"), L(<<>>))))
    IN  IF f2.t = "list" THEN f2 ELSE L(<<>>)

\* datetime.now() of a later call
Later == "later"

AlgJobs == { j \in NormJobs : ~j.include_faq }

AlgInit ==
    /\ apiKey = TRUE
    /\ PoolIdle
    /\ job \in AlgJobs
    /\ articles = <<>>
    /\ \E sh \in AlgShapes :
          run = [pc |-> "raw", shape |-> sh, raw |-> AlgRawOf(sh),
                 first |-> None, flat |-> None, again |-> None]
    /\ nRuns = 0
    /\ nPublish = 0
    /\ deliveries = <<>>

\* _normalize_result on the model output
AlgNormalize ==
    /\ run.pc = "raw"
    /\ run' = [run EXCEPT !.pc = "first",
                  !.first = NormalizeResult(run.raw, job.topic, job.language, Now)]
    /\ UNCHANGED <<apiKey, job, articles, nRuns, nPublish, deliveries>>
    /\ UNCHANGED poolVars

\* _normalize_result on the object the output wraps
AlgNormalizeFlat ==
    /\ run.pc = "first"
    /\ run' = [run EXCEPT !.pc = "flat",
                  !.flat = NormalizeResult(AlgFlatOf(run.shape), job.topic,
                                           job.language, Now)]
    /\ UNCHANGED <<apiKey, job, articles, nRuns, nPublish, deliveries>>
    /\ UNCHANGED poolVars

\* _normalize_result on its own bundle, at a later time
AlgNormalizeAgain ==
    /\ run.pc = "flat"
    /\ run.first.ok
    /\ run' = [run EXCEPT !.pc = "again",
                  !.again = NormalizeResult(BundleAsRaw(run.first.bundle),
                                            job.topic, job.language, Later)]
    /\ UNCHANGED <<apiKey, job, articles, nRuns, nPublish, deliveries>>
    /\ UNCHANGED poolVars

AlgNext == AlgNormalize \/ AlgNormalizeFlat \/ AlgNormalizeAgain

SpecAlg == AlgInit /\ [][AlgNext]_vars

\* ------------------------------------------------ core/openai_client.py
\* One invocation of a client operation: the request(s) it sends to the
\* provider and what it hands back to its caller.

\* "gpt-4" stands for the models of the else branch of run_text
ClientModels == {"gpt-5", "gpt-4o", "gpt-4o-mini", "gpt-4"}

\* **opts of a run_text call: a model, a temperature, a token budget under
\* one of the two names, or none of them
ClientOpts ==
    [model : ClientModels \cup {"absent"},
     temperature : BOOLEAN,
     tokens : {"absent", "max_tokens", "max_completion_tokens"}]

NoOpts == [model |-> "absent", temperature |-> FALSE, tokens |-> "absent"]

TokenParams == {"max_tokens", "max_completion_tokens"}

\* run_text lines 56-78: the keyword arguments of chat.completions.create,
\* chosen by settings.OPENAI_TEXT_MODEL and then updated with opts
RunTextOptions(settings_model, opts) ==
    LET base == {"model", "temperature", "messages"}
        byModel ==
            IF settings_model = "gpt-5"
            THEN (base \cup {"max_completion_tokens", "verbosity", "reasoning_effort"})
                    \ {"temperature"}
            ELSE IF settings_model \in {"gpt-4o", "gpt-4o-mini"}
            THEN base \cup {"max_completion_tokens"}
            ELSE base \cup {"max_tokens"}
        given == (IF opts.temperature THEN {"temperature"} ELSE {})
                 \cup (IF opts.tokens = "absent" THEN {} ELSE {opts.tokens})
    IN  [op |-> "chat.completions.create",
         model |-> IF opts.model = "absent" THEN settings_model ELSE opts.model,
         params |-> byModel \cup given]

\* gen_image lines 115-121
GenImageOptions ==
    [op |-> "images.generate", model |-> "dall-e-3",
     params |-> {"model", "prompt", "size", "quality", "n"}]

ClientOps == {"run_text", "gen_image", "retry_with_json_prompt"}

\* what the provider does with a request: an API error or timeout, content
\* that is a JSON object, content that is not
ProviderAnswers == {"error", "json", "text"}

ClientInit ==
    /\ apiKey \in BOOLEAN
    /\ PoolIdle
    /\ job = None
    /\ articles = <<>>
    /\ \E op \in ClientOps, m \in ClientModels, o \in ClientOpts :
          /\ op # "run_text" => o = NoOpts
          /\ run = [pc |-> "call", op |-> op, settings_model |-> m, opts |-> o,
                    calls |-> <<>>, result |-> "none"]
    /\ nRuns = 0
    /\ nPublish = 0
    /\ deliveries = <<>>

\* the operation up to its return, its raise or (retry_with_json_prompt,
\* lines 206-215) the point where it has caught a ValueError
ClientCall ==
    /\ run.pc = "call"
    /\ IF ~apiKey
       THEN \* get_openai raises ValueError before any request is made
            run' = [run EXCEPT
                      !.pc = IF run.op = "retry_with_json_prompt" THEN "retry" ELSE "done",
                      !.result = "raised ValueError"]
       ELSE \E answer \in ProviderAnswers :
              LET req == IF run.op = "gen_image" THEN GenImageOptions
                         ELSE RunTextOptions(run.settings_model, run.opts)
                  sent == [run EXCEPT !.calls = Append(@, req)]
              IN  run' =
                    IF answer = "error"
                    THEN [sent EXCEPT !.pc = "done", !.result = "raised provider error"]
                    ELSE IF run.op = "retry_with_json_prompt" /\ answer = "text"
                    THEN [sent EXCEPT !.pc = "retry", !.result = "raised ValueError"]
                    ELSE [sent EXCEPT !.pc = "done", !.result = answer]
    /\ UNCHANGED <<apiKey, job, articles, nRuns, nPublish, deliveries>>
    /\ UNCHANGED poolVars

\* retry_with_json_prompt lines 206-222: run_text again with the JSON-only
\* message appended; any failure is raised as ValueError
ClientRetry ==
    /\ run.pc = "retry"
    /\ IF ~apiKey
       THEN run' = [run EXCEPT !.pc = "done", !.result = "raised ValueError"]
       ELSE \E answer \in ProviderAnswers :
              LET req  == RunTextOptions(run.settings_model, NoOpts)
                  sent == [run EXCEPT !.calls = Append(@, req)]
              IN  run' = [sent EXCEPT !.pc = "done",
                             !.result = IF answer = "json" THEN "json"
                                        ELSE "raised ValueError"]
    /\ UNCHANGED <<apiKey, job, articles, nRuns, nPublish, deliveries>>
    /\ UNCHANGED poolVars

ClientNext == ClientCall \/ ClientRetry

SpecClient == ClientInit /\ [][ClientNext]_vars

\* ------------------------------------- the number of AI images of a job
\* create_job turns the plan's allowance into Job.requested_images, and
\* generate_article sources that many images and splits them.

\* the image counts a request is for, and plan.max_images_per_article
ImageCounts == 0..MaxImagesPerArticle

ImgInit ==
    /\ apiKey = TRUE
    /\ PoolIdle
    /\ job = None
    /\ articles = <<>>
    /\ \E asked \in ImageCounts, allowance \in ImageCounts, direct \in BOOLEAN :
          run = [pc |-> IF direct THEN "images" ELSE "create",
                 asked |-> asked, allowance |-> allowance, direct |-> direct,
                 requested_images |-> IF direct THEN asked ELSE 0,
                 answers |-> None, image_urls |-> <<>>,
                 featured_image |-> NoImage, content_images |-> <<>>]
    /\ nRuns = 0
    /\ nPublish = 0
    /\ deliveries = <<>>

\* create_job lines 68-97 with include_images = (asked > 0): rejected when
\* the plan allows no image, else requested_images = min(max(allowance, 0), 1)
ImgCreateJob ==
    /\ run.pc = "create"
    /\ LET include_images == run.asked > 0
       IN  IF include_images /\ run.allowance <= 0
           THEN run' = [run EXCEPT !.pc = "rejected"]
           ELSE run' = [run EXCEPT
                          !.pc = "images",
                          !.requested_images =
                              IF include_images
                              THEN Min(IF run.allowance > 0 THEN run.allowance ELSE 0, 1)
                              ELSE 0]
    /\ UNCHANGED <<apiKey, job, articles, nRuns, nPublish, deliveries>>
    /\ UNCHANGED poolVars

\* generate_article lines 359-385 for a job without user images
ImgGenerate ==
    /\ run.pc = "images"
    /\ \E phraseOk \in BOOLEAN, pexels \in PexelsAnswers, dalle \in DalleAnswers :
         LET urls == IF run.requested_images > 0
                     THEN GenerateImages(run.requested_images, phraseOk, pexels, dalle).urls
                     ELSE <<>>
         IN  run' = [run EXCEPT
                        !.pc = "done",
                        !.answers = [pexels |-> pexels, dalle |-> dalle],
                        !.image_urls = urls,
                        !.featured_image = FeaturedOf(urls),
                        !.content_images = ContentOf(urls)]
    /\ UNCHANGED <<apiKey, job, articles, nRuns, nPublish, deliveries>>
    /\ UNCHANGED poolVars

ImgNext == ImgCreateJob \/ ImgGenerate

SpecImg == ImgInit /\ [][ImgNext]_vars

\* ------------------------------------------- several jobs and their sessions
\* create_job, the scheduler tick, the background task of each Job and the
\* diagnostic script, with the SQLAlchemy session each of them works on.
\* The content of a bundle is reduced to "article_html is stored or not".

PoolInit ==
    /\ apiKey \in BOOLEAN
    /\ PoolIdle
    /\ job = None
    /\ articles = <<>>
    /\ run = IdleRun
    /\ nRuns = 0
    /\ nPublish = 0
    /\ deliveries = <<>>

\* Session.commit(): the attribute changes pending in session s are written
Commit(rows, s) ==
    [i \in DOMAIN rows |->
        IF rows[i].session = s /\ rows[i].pend
        THEN [rows[i] EXCEPT !.article_html = TRUE, !.pend = FALSE]
        ELSE rows[i]]

\* Session.rollback(): the attribute changes pending in session s are dropped,
\* whichever execution made them
Rollback(rows, s) ==
    [i \in DOMAIN rows |->
        IF rows[i].session = s THEN [rows[i] EXCEPT !.pend = FALSE] ELSE rows[i]]

\* Article(job_id=job.id, ..., status=DRAFT) added in session s
DraftRow(j, s) ==
    [job_id |-> j, session |-> s, status |-> "draft",
     article_html |-> FALSE, pend |-> FALSE]

\* query(Article).filter(Article.job_id == job_id).first(): 0 when no row
FirstArticleOf(rows, j) ==
    IF \E i \in DOMAIN rows : rows[i].job_id = j
    THEN CHOOSE i \in DOMAIN rows :
            /\ rows[i].job_id = j
            /\ \A k \in DOMAIN rows : rows[k].job_id = j => i <= k
    ELSE 0

\* a create_job that charges the usage counter when the Job is created
CreateJobCharging(j, s, ai, limit) ==
    /\ jobs[j].status = "none"
    /\ \A k \in JobIds : k < j => jobs[k].status # "none"
    /\ IF usage >= limit
       THEN /\ jobs' = [jobs EXCEPT ![j].status = "rejected"]
            /\ UNCHANGED <<tasks, usage>>
       ELSE /\ jobs' = [jobs EXCEPT ![j] =
                           [status |-> "pending", images |-> ai, session |-> s]]
            /\ tasks' = [tasks EXCEPT ![j].pc = "created"]
            /\ usage' = usage + 1

\* JobService.create_job on session s: rejected when the month's usage has
\* reached the plan's limit; else the Job row (pending) is committed and the
\* background task is created; the usage counter is not touched
CreateJobOn(j, s, ai, limit) ==
    /\ jobs[j].status = "none"
    /\ \A k \in JobIds : k < j => jobs[k].status # "none"
    /\ IF usage >= limit
       THEN /\ jobs' = [jobs EXCEPT ![j].status = "rejected"]
            /\ UNCHANGED <<tasks, usage>>
       ELSE /\ jobs' = [jobs EXCEPT ![j] =
                           [status |-> "pending", images |-> ai, session |-> s]]
            /\ tasks' = [tasks EXCEPT ![j].pc = "created"]
            /\ usage' = usage

\* POST /v1/jobs: one create_job on the session of the request
CreateJob ==
    /\ \E j \in JobIds, ai \in BOOLEAN, limit \in 0..MaxJobs :
          CreateJobOn(j, j, ai, limit)
    /\ UNCHANGED <<apiKey, articleRows>>
    /\ UNCHANGED <<job, articles, run, nRuns, nPublish, deliveries>>

\* process_due_jobs with two due ScheduledJobs: two create_job calls on the
\* session of the tick, so both background tasks work on that session; no
\* task runs before the loop has ended
ProcessDueJobs ==
    /\ \E j \in JobIds, ai \in [{0, 1} -> BOOLEAN], limit \in 0..MaxJobs :
          /\ j + 1 \in JobIds
          /\ jobs[j].status = "none"
          /\ \A k \in JobIds : k < j => jobs[k].status # "none"
          /\ IF usage >= limit
             THEN /\ jobs' = [jobs EXCEPT ![j].status = "rejected",
                                          ![j + 1].status = "rejected"]
                  /\ UNCHANGED tasks
             ELSE /\ jobs' = [jobs EXCEPT
                       ![j] = [status |-> "pending", images |-> ai[0], session |-> j],
                       ![j + 1] = [status |-> "pending", images |-> ai[1], session |-> j]]
                  /\ tasks' = [tasks EXCEPT ![j].pc = "created",
                                            ![j + 1].pc = "created"]
    /\ UNCHANGED <<apiKey, articleRows, usage>>
    /\ UNCHANGED <<job, articles, run, nRuns, nPublish, deliveries>>

\* generate_article lines 408-425 in session s, then return False
TaskFail(j) ==
    LET s    == jobs[j].session
        rows == Rollback(articleRows, s)
        a    == FirstArticleOf(rows, j)
    IN  /\ jobs' = [jobs EXCEPT ![j].status = "failed"]
        /\ articleRows' = IF a = 0 THEN rows
                          ELSE [rows EXCEPT ![a].status = "failed"]
        /\ tasks' = [tasks EXCEPT ![j].pc = "done", ![j].result = "False"]
        /\ usage' = usage

\* generate_article lines 392-406 on rows, then _start_article_generation
\* lines 236-240: READY and completed are committed, the bundle is dispatched,
\* True is returned and the usage counter is incremented
TaskFinish(j, rows) ==
    LET s  == jobs[j].session
        a  == tasks[j].article_id
        r1 == Commit([rows EXCEPT ![a].status = "ready"], s)
    IN  /\ jobs' = [jobs EXCEPT ![j].status = "completed"]
        /\ \E delivered \in BOOLEAN :
              articleRows' = [r1 EXCEPT ![a].status =
                                 IF delivered THEN "delivered" ELSE "failed"]
        /\ tasks' = [tasks EXCEPT ![j].pc = "done", ![j].result = "True"]
        /\ usage' = usage + 1

\* the background task runs up to its first suspension: lines 276-318
TaskStart ==
    /\ \E j \in JobIds :
          /\ tasks[j].pc = "created"
          /\ IF ~apiKey
             THEN /\ tasks' = [tasks EXCEPT ![j].pc = "done", ![j].result = "False"]
                  /\ UNCHANGED <<jobs, articleRows>>
             ELSE LET s == jobs[j].session
                  IN  /\ jobs' = [jobs EXCEPT ![j].status = "processing"]
                      /\ articleRows' = Append(Commit(articleRows, s), DraftRow(j, s))
                      /\ tasks' = [tasks EXCEPT ![j].pc = "completion",
                                                ![j].article_id = Len(articleRows) + 1]
    /\ UNCHANGED <<apiKey, usage>>
    /\ UNCHANGED <<job, articles, run, nRuns, nPublish, deliveries>>

\* the text completion has answered: no bundle -> except branch; a bundle ->
\* lines 320-331 set the Article's attributes (pending), and the execution
\* either suspends in asyncio.to_thread (AI images) or runs to its end
TaskCompletion ==
    /\ \E j \in JobIds, ok \in BOOLEAN :
          /\ tasks[j].pc = "completion"
          /\ LET a    == tasks[j].article_id
                 rows == [articleRows EXCEPT ![a].pend = TRUE]
             IN  IF ~ok THEN TaskFail(j)
                 ELSE IF jobs[j].images
                 THEN /\ articleRows' = rows
                      /\ tasks' = [tasks EXCEPT ![j].pc = "pexels"]
                      /\ UNCHANGED <<jobs, usage>>
                 ELSE TaskFinish(j, rows)
    /\ UNCHANGED apiKey
    /\ UNCHANGED <<job, articles, run, nRuns, nPublish, deliveries>>

\* the stock-photo search has answered: lines 361-406
TaskResume ==
    /\ \E j \in JobIds :
          /\ tasks[j].pc = "pexels"
          /\ TaskFinish(j, articleRows)
    /\ UNCHANGED apiKey
    /\ UNCHANGED <<job, articles, run, nRuns, nPublish, deliveries>>

\* debug_phase3_vps.py test_article_generation: generate_article on the latest
\* pending Job, on the script's own session (0), taken as one step; the script
\* does not update the usage counter
DebugRun ==
    /\ apiKey
    /\ \E j \in JobIds, ok \in BOOLEAN, delivered \in BOOLEAN :
          /\ jobs[j].status = "pending"
          /\ \A k \in JobIds : jobs[k].status = "pending" => k <= j
          /\ jobs' = [jobs EXCEPT ![j].status = IF ok THEN "completed" ELSE "failed"]
          /\ LET rows == Append(articleRows, DraftRow(j, 0))
                 n    == Len(rows)
                 a    == FirstArticleOf(rows, j)
             IN  articleRows' =
                    IF ok
                    THEN [rows EXCEPT ![n].article_html = TRUE,
                                      ![n].status = IF delivered THEN "delivered"
                                                    ELSE "failed"]
                    ELSE [rows EXCEPT ![a].status = "failed"]
    /\ UNCHANGED <<apiKey, tasks, usage>>
    /\ UNCHANGED <<job, articles, run, nRuns, nPublish, deliveries>>

\* the server: requests, scheduler ticks and the background tasks
PoolNext ==
    \/ CreateJob
    \/ ProcessDueJobs
    \/ TaskStart
    \/ TaskCompletion
    \/ TaskResume

SpecPool == PoolInit /\ [][PoolNext]_vars

\* the server's requests and background tasks, and the diagnostic script run
\* against the same database
DebugNext ==
    \/ CreateJob
    \/ TaskStart
    \/ TaskCompletion
    \/ TaskResume
    \/ DebugRun

SpecDebug == PoolInit /\ [][DebugNext]_vars

\* the server under one plan: monthly_limit is fixed for the month, and every
\* request is checked against it
QuotaInit ==
    /\ apiKey \in BOOLEAN
    /\ PoolIdle
    /\ job = None
    /\ articles = <<>>
    /\ \E limit \in 0..MaxJobs : run = [monthly_limit |-> limit]
    /\ nRuns = 0
    /\ nPublish = 0
    /\ deliveries = <<>>

\* POST /v1/jobs for a site whose plan has monthly_limit = run.monthly_limit
QuotaCreateJob ==
    /\ \E j \in JobIds, ai \in BOOLEAN :
          CreateJobOn(j, j, ai, run.monthly_limit)
    /\ UNCHANGED <<apiKey, articleRows>>
    /\ UNCHANGED <<job, articles, run, nRuns, nPublish, deliveries>>

QuotaNext ==
    \/ QuotaCreateJob
    \/ TaskStart
    \/ TaskCompletion
    \/ TaskResume

SpecQuota == QuotaInit /\ [][QuotaNext]_vars

\* -------------------------------------------- the due scheduled jobs
\* SchedulerService.process_due_jobs, started by the daily cron task of
\* main.py and by POST /v1/scheduler/run_daily, both on the event loop of the
\* server, each with a session of its own.

\* the two callers of process_due_jobs
Triggers == {"cron", "run_daily"}

ScheduledIds == 1..MaxScheduled

\* the ids of set ids in ascending order, as the query returns the rows
RECURSIVE Ascending(_)
Ascending(ids) ==
    IF ids = {} THEN <<>>
    ELSE LET m == CHOOSE x \in ids : \A y \in ids : x <= y
         IN  <<m>> \o Ascending(ids \ {m})

\* lines 319-324: the rows with status pending and publish_date <= now
DueJobs(scheduled) ==
    Ascending({s \in ScheduledIds :
                  scheduled[s].status = "pending" /\ scheduled[s].due})

\* a process_due_jobs that gives up the event loop while it is running
LoopFreeAlways == TRUE

\* a coroutine starts when the event loop is not running another one;
\* process_due_jobs awaits only create_job and _check_quota, which never
\* suspend, so it keeps the loop from its query to its return
LoopFree == run.loop = "free"

\* save_plan line 194: ScheduledJob(status="pending"), no Job linked
SchedInit ==
    /\ apiKey = TRUE
    /\ PoolIdle
    /\ job = None
    /\ articles = <<>>
    /\ \E due \in [ScheduledIds -> BOOLEAN] :
          run = [loop |-> "free",
                 scheduled |-> [s \in ScheduledIds |->
                                   [status |-> "pending", due |-> due[s], job_id |-> 0]],
                 created |-> <<>>,
                 runs |-> [t \in Triggers |->
                              [pc |-> "idle", due_jobs |-> <<>>, i |-> 0, returned |-> FALSE]]]
    /\ nRuns = 0
    /\ nPublish = 0
    /\ deliveries = <<>>

SchedUnchanged ==
    /\ UNCHANGED <<apiKey, job, articles, nRuns, nPublish, deliveries>>
    /\ UNCHANGED poolVars

\* the publish_date of a pending ScheduledJob passes
SchedTime ==
    /\ \E s \in ScheduledIds :
          /\ ~run.scheduled[s].due
          /\ run' = [run EXCEPT !.scheduled[s].due = TRUE]
    /\ SchedUnchanged

\* lines 316-329: the run starts and queries the due rows
SchedQuery ==
    /\ \E t \in Triggers :
          /\ run.runs[t].pc = "idle"
          /\ LoopFree
          /\ run' = [run EXCEPT !.loop = t,
                                !.runs[t] = [pc |-> "loop", due_jobs |-> DueJobs(run.scheduled),
                                             i |-> 1, returned |-> @.returned]]
    /\ SchedUnchanged

\* lines 331-335: the next row of the list is marked processing and committed
SchedMark ==
    /\ \E t \in Triggers :
          LET r == run.runs[t]
          IN  /\ r.pc = "loop"
              /\ r.i <= Len(r.due_jobs)
              /\ run' = [run EXCEPT !.scheduled[r.due_jobs[r.i]].status = "processing",
                                    !.runs[t].pc = "create"]
    /\ SchedUnchanged

\* lines 337-372: create_job; on success the Job is linked and the row is
\* completed, else the row is failed; then the next row
SchedCreate ==
    /\ \E t \in Triggers, success \in BOOLEAN :
          LET r == run.runs[t]
              s == r.due_jobs[r.i]
          IN  /\ r.pc = "create"
              /\ run' = IF success
                        THEN [run EXCEPT
                                !.created = Append(@, [scheduled |-> s, by |-> t]),
                                !.scheduled[s].job_id = Len(run.created) + 1,
                                !.scheduled[s].status = "completed",
                                !.runs[t].pc = "loop",
                                !.runs[t].i = @ + 1]
                        ELSE [run EXCEPT
                                !.scheduled[s].status = "failed",
                                !.runs[t].pc = "loop",
                                !.runs[t].i = @ + 1]
    /\ SchedUnchanged

\* lines 380-385: the list is exhausted and the run returns
SchedReturn ==
    /\ \E t \in Triggers :
          LET r == run.runs[t]
          IN  /\ r.pc = "loop"
              /\ r.i > Len(r.due_jobs)
              /\ run' = [run EXCEPT
                           !.loop = IF @ = t THEN "free" ELSE @,
                           !.runs[t] = [pc |-> "idle", due_jobs |-> <<>>, i |-> 0,
                                        returned |-> TRUE]]
    /\ SchedUnchanged

SchedNext ==
    \/ SchedTime
    \/ SchedQuery
    \/ SchedMark
    \/ SchedCreate
    \/ SchedReturn

SpecSched == SchedInit /\ [][SchedNext]_vars

\* ================================================================== claims
Last(seq) == seq[Len(seq)]

IsPrefix(p, q) == Len(p) <= Len(q) /\ \A i \in 1..Len(p) : p[i] = q[i]

\* the step in which the execution in progress fails and returns False
RunFails == run.pc \in {"completion", "normalize"} /\ run'.pc = "idle"

\* the step in which the execution commits the bundle (lines 391-397)
PersistStep == run.pc = "persist" /\ run'.pc # "persist"

\* the step in which the execution hands the bundle to the dispatcher
DispatchStep == run.pc = "dispatch" /\ run'.pc # "dispatch"

DeliveryFailed(d) == d.response \in {"500", "exception"}

\* C1 (as claimed): the Job status only moves pending -> processing ->
\* completed or pending -> processing -> failed under generate_article,
\* send_article_to_wordpress and publish_article, and a completed or failed
\* Job never changes status again.
JobTransitions ==
    { <<"pending", "processing">>, <<"processing", "completed">>,
      <<"processing", "failed">> }

C1_JobStatusLifecycle ==
    [][job'.status # job.status => <<job.status, job'.status>> \in JobTransitions]_vars

\* C2 (as claimed): an Article is created as draft when generation starts,
\* its status only moves draft -> ready or draft -> failed, and no row is
\* ever deleted.
ArticleStep(allowed) ==
    /\ Len(articles') >= Len(articles)
    /\ \A i \in 1..Len(articles) :
          articles'[i].status # articles[i].status
             => <<articles[i].status, articles'[i].status>> \in allowed
    /\ \A i \in (Len(articles) + 1)..Len(articles') :
          /\ articles'[i].status = "draft"
          /\ run.pc = "idle" /\ run'.pc = "completion"
    /\ (run.pc = "idle" /\ run'.pc = "completion")
          => Len(articles') = Len(articles) + 1

C5_ReadyArticlePopulated ==
    \A i \in 1..Len(articles) :
        articles[i].status = "ready"
           => /\ articles[i].article_html.t = "str"
              /\ Strip(articles[i].article_html.s) # <<>>
              /\ articles[i].meta_title.t = "str"
              /\ Len(articles[i].meta_title.s) <= 60
              /\ articles[i].meta_description.t = "str"
              /\ Truthy(articles[i].meta_description)
              /\ Len(articles[i].meta_description.s) <= 155
              /\ articles[i].faq_json.t = "list"
              /\ articles[i].schema_json.t = "dict"

\* a committed, ready Article whose bundle came from a wrapped model output
\* without meta: its meta title is the title cut to 60 characters
C5_Witness ==
    \E i \in 1..Len(articles) :
        /\ articles[i].status = "ready"
        /\ Len(articles[i].meta_title.s) = 60
        /\ run.pc = "dispatch"

\* C6: the tiers are attempted in the order strict JSON schema, loose JSON
\* object, plain HTML; a tier is attempted only after every earlier tier
\* failed, nothing is attempted after a tier succeeded, and the attempt fails
\* only when the third tier failed, the Job then carrying that tier's error.
TierOrder == <<"json_schema", "json_object", "plain_html">>

AttemptsInOrder(attempts) ==
    /\ Len(attempts) <= 3
    /\ \A i \in 1..Len(attempts) : attempts[i].tier = TierOrder[i]
    /\ \A i \in 1..(Len(attempts) - 1) : attempts[i].outcome # "ok"

StepOrder == <<"start", "completion", "normalize", "images", "persist", "dispatch">>

StepsInOrder(steps) ==
    \/ IsPrefix(steps, StepOrder)
    \/ /\ steps # <<>> /\ Last(steps) = "failed"
       /\ IsPrefix(SubSeq(steps, 1, Len(steps) - 1), StepOrder)

EndsWithCta(html) ==
    /\ html.t = "str"
    /\ Len(html.s) >= 2
    /\ SubSeq(html.s, Len(html.s) - 1, Len(html.s)) = <<" ", "cta">>

C8_PersistedEqualsDelivered ==
    \A i \in 1..Len(deliveries) :
        LET d == deliveries[i]
            a == articles[d.article_id]
        IN  /\ a.article_html = d.data.content
            /\ (job.include_cta /\ Truthy(job.cta_url)) => EndsWithCta(a.article_html)

\* C9: for a job with include_faq = false, the faq persisted on the Article
\* (once the bundle is committed) and the faq of every delivered payload are
\* the empty list.
C9_FaqEmptyWhenNotIncluded ==
    ~job.include_faq
       => /\ \A i \in 1..Len(articles) :
                articles[i].status = "ready" => articles[i].faq_json = L(<<>>)
          /\ \A i \in 1..Len(deliveries) : deliveries[i].data.faq = L(<<>>)

\* C10 (as claimed): for every list of resolved image URLs, the bundle built
\* by generate_article and the payload built for the dispatcher have no
\* featured image and no content image for an empty list, and otherwise the
\* first URL as featured image and the remaining URLs, in order, as content
\* images.
FeaturedByPosition(urls) == IF urls = <<>> THEN "NONE" ELSE urls[1]

RestByPosition(urls) == IF urls = <<>> THEN <<>> ELSE SubSeq(urls, 2, Len(urls))

BundleSplitsImages ==
    run.pc \in {"persist", "dispatch"}
       => /\ run.payload.featured_image = FeaturedByPosition(run.image_urls)
          /\ run.payload.image_urls = RestByPosition(run.image_urls)

NotAmong(u, urls) == \A k \in 1..Len(urls) : urls[k] # u

C11_FeaturedNotInContent ==
    /\ run.pc \in {"persist", "dispatch"}
          => NotAmong(run.payload.featured_image, run.payload.image_urls)
    /\ \A i \in 1..Len(deliveries) :
          NotAmong(deliveries[i].data.featured_image, deliveries[i].data.image_urls)

\* C12: the images of a bundle are the caller-supplied list, verbatim and at
\* cost 0, when that list is non-empty; otherwise, when AI images were
\* requested with a positive count, at most that many sourced images at 4
\* cents for each image obtained; otherwise no image at cost 0.  Caller
\* supplied and sourced URLs never occur in one list.
SourcedUrls == {"pexels", "dalle"}

ImagePolicy(urls, cost) ==
    IF job.user_images # <<>>
    THEN urls = job.user_images /\ cost = 0
    ELSE IF job.images /\ job.requested_images > 0
    THEN /\ Len(urls) <= job.requested_images
         /\ \A k \in 1..Len(urls) : urls[k] \in SourcedUrls
         /\ cost = 4 * Len(urls)
    ELSE urls = <<>> /\ cost = 0

Committed(a) == a.status = "ready" \/ (a.status = "failed" /\ a.article_html # None)

C12_ImagePolicy ==
    /\ run.pc \in {"persist", "dispatch"}
          => /\ run.image_urls \in Seq(UserUrls) \cup Seq(SourcedUrls)
             /\ FeaturedOf(run.image_urls) = run.payload.featured_image
    /\ run.pc = "persist"
          => /\ ImagePolicy(run.image_urls, run.pend.image_cost_cents)
             /\ run.pend.image_urls_json = run.image_urls
    /\ \A i \in 1..Len(articles) :
          Committed(articles[i])
             => ImagePolicy(articles[i].image_urls_json, articles[i].image_cost_cents)

\* a committed Article with one generated image, charged 4 cents
C12_Witness ==
    \E i \in 1..Len(articles) :
        /\ articles[i].status = "ready"
        /\ articles[i].image_urls_json = <<"dalle">>
        /\ articles[i].image_cost_cents = 4

\* C13: image handling never fails an execution: the images step always
\* hands on to the commit without touching the Job, and an execution that
\* returns False failed before its bundle was normalized.
ImagesStep == run.pc = "images" /\ run' # run

C13_ImagesNeverFail ==
    [][/\ ImagesStep
              => /\ run'.pc = "persist"
                 /\ job' = job /\ articles' = articles
                 /\ run'.image_urls \in Seq(UserUrls) \cup Seq(SourcedUrls)
       /\ run'.result = "False"
              => \A k \in 1..Len(run'.steps) :
                     run'.steps[k] \notin {"normalize", "images"}]_vars

\* the stock-photo search and the generative call both failed, and the
\* execution still completed the Job without an image
C13_Witness ==
    /\ job.images /\ job.user_images = <<>>
    /\ run.result = "True"
    /\ articles[run.article_id].image_urls_json = <<>>
    /\ job.status = "completed"

\* C18: every bundle that normalization returns has a non-blank article_html,
\* a meta title of at most 60 characters and a meta description of at most
\* 155 characters, whether the model supplied the meta values or they were
\* derived from the title; the payload built for the dispatcher keeps these
\* limits.
C18_BundleLimits ==
    /\ run.pc \in {"normed", "delivered"}
          => LET b == run.pend.bundle
             IN  /\ b.article_html.t = "str"
                 /\ \E k \in 1..Len(b.article_html.s) : b.article_html.s[k] # " "
                 /\ b.meta.title.t = "str" /\ Len(b.meta.title.s) <= 60
                 /\ b.meta.description.t = "str"
                 /\ Len(b.meta.description.s) <= 155
    /\ \A i \in 1..Len(deliveries) :
          /\ Len(deliveries[i].data.content.s) > 0
          /\ Len(deliveries[i].data.meta_title.s) <= 60
          /\ Len(deliveries[i].data.meta_description.s) <= 155

\* model-supplied meta values that were too long were delivered cut to 60 and
\* 155 characters
C18_Witness ==
    /\ run.pc = "delivered"
    /\ run.attempts.meta =
          D(<< <<"title", LongMetaTitle>>, <<"description", LongMetaDescription>> >>)
    /\ Len(deliveries[1].data.meta_title.s) = 60
    /\ Len(deliveries[1].data.meta_description.s) = 155

\* C19: a raw output whose article body is absent, null, empty, whitespace
\* only or not a string makes normalization fail with an error message: no
\* bundle results, nothing is delivered, and the tier that produced it counts
\* as failed.
BodyMissingShapes == {Absent, None, S(<<>>), S(<<" ", " ">>), N(5)}

C20_NeverFailsOnShapes ==
    (run.pc # "norm" /\ run.attempts # Absent
        /\ run.attempts.body \in {GoodHtml, S(<<"p">>)}
        /\ run.attempts.wrap \in {"none", "extra", "data"})
       => run.pend.ok

\* C15: once generate_article has set the Job to processing, the execution
\* runs to its end: the Job eventually is completed or failed and does not
\* stay in processing (fair scheduling, external calls return or time out)
C15_AttemptTerminates ==
    (job.status = "processing") ~> (job.status \in {"completed", "failed"})

\* an execution that set the Job to processing, had every tier fail and ended
\* in the except branch with the Job failed
C15_Witness ==
    /\ run.pc = "idle"
    /\ run.result = "False"
    /\ Len(run.attempts) = TierCount
    /\ run.steps = <<"start", "failed">>
    /\ job.status = "failed"

\* the background tasks that returned True
Succeeded == { j \in JobIds : tasks[j].result = "True" }

\* C14: the usage counter is charged only after confirmed success: it counts
\* exactly the jobs whose generation returned success, each once; a job that
\* was rejected at creation, is not finished or failed is not counted
C14_ChargedOnlyOnSuccess ==
    /\ usage = Cardinality(Succeeded)
    /\ \A j \in Succeeded : jobs[j].status = "completed"
    /\ \A j \in JobIds :
          jobs[j].status \in {"none", "rejected", "pending", "processing", "failed"}
             => j \notin Succeeded

\* one job succeeded and was charged, the other failed and was not
C14_Witness ==
    /\ usage = 1
    /\ \E j \in JobIds : tasks[j].result = "True" /\ jobs[j].status = "completed"
    /\ \E j \in JobIds : tasks[j].result = "False" /\ jobs[j].status = "failed"

\* C16: executions for different Jobs are independent: an execution that
\* returned success has stored its bundle in its Article, whatever the other
\* executions did (failed and rolled back, or succeeded) meanwhile
C16_ExecutionsIndependent ==
    \A j \in Succeeded : articleRows[tasks[j].article_id].article_html

\* C17: no Job id has two Article rows (no Job is processed twice)
C17_OneArticlePerJob ==
    \A j \in JobIds :
       Cardinality({ i \in DOMAIN articleRows : articleRows[i].job_id = j }) <= 1

\* C5 with several jobs: every Article in READY or DELIVERED has its
\* article_html stored
C5_ReadyArticleStored ==
    \A i \in DOMAIN articleRows :
       articleRows[i].status \in {"ready", "delivered"}
          => articleRows[i].article_html

\* C21: output nested one level under one of the wrapper keys article,
\* result, data, payload, content normalizes as the object it wraps; with two
\* wrappers the first dict-typed one in that order is read, a wrapper key
\* whose value is no dict is passed over, and a second level is not
\* unwrapped (the object two levels down is not read: the body is missing)
C21_WrapperUnwrapping ==
    run.pc \in {"flat", "again"} =>
       /\ run.shape.wrap # "double" => run.first = run.flat
       /\ run.shape.wrap = "double" =>
             run.first = NormFail("Missing or invalid 'article_html'.")

\* an output wrapped under "payload" whose bundle is that of the object inside
C21_Witness ==
    /\ run.pc = "flat"
    /\ run.shape.wrap = "payload"
    /\ run.first.ok
    /\ run.first.bundle.title = S(<<"T">>)
    /\ run.first = run.flat

\* the shapes of C22: no title field, and the object that is read is InnerOf
NoTitleField ==
    /\ run.pc # "raw"
    /\ run.shape.title = Absent
    /\ run.shape.wrap \notin {"double", "two"}
    /\ run.first.ok

\* C22 (as claimed): with no title/titel/headline field the title is the
\* text of the H1 or H2 heading that occurs first in article_html, and
\* topic_fallback only when there is no such heading
C22_TitleFallbackAsClaimed ==
    NoTitleField =>
       LET html == run.shape.body.s
           i == FirstIndex([k \in 1..Len(html) |-> IsH1(html[k]) \/ IsH2(html[k])])
       IN  run.first.bundle.title =
              IF i # 0 THEN S(HeadingText(html[i])) ELSE job.topic

\* C22 (amended): with no title/titel/headline field the title is the text of
\* the first H1 when article_html has an H1, else of the first H2; it is
\* topic_fallback when there is neither or when that heading's text is empty
C22_TitleFallback ==
    NoTitleField =>
       LET html == run.shape.body.s
           i1 == FirstIndex([k \in 1..Len(html) |-> IsH1(html[k])])
           i2 == FirstIndex([k \in 1..Len(html) |-> IsH2(html[k])])
           m  == IF i1 # 0 THEN i1 ELSE i2
       IN  run.first.bundle.title =
              IF m # 0 /\ HeadingText(html[m]) # <<>>
              THEN S(HeadingText(html[m])) ELSE job.topic

\* a body whose H2 comes before its H1: the title is the H1's text
C22_Witness ==
    /\ NoTitleField
    /\ run.shape.body = S(<<"h2:B", "h1:A">>)
    /\ run.first.bundle.title = S(<<"A">>)

\* C23: the faq of a normalized bundle is a list: the model's list; the
\* empty list when the faq is absent or no list; and, when the faq is a dict
\* that wraps the entries under items, list or entries, that list of entries
C23_FaqFlatList ==
    (run.pc # "raw" /\ run.shape.wrap \notin {"double", "two"} /\ run.first.ok) =>
       /\ run.first.bundle.faq.t = "list"
       /\ run.first.bundle.faq = CliFaq(run.shape.faq)

\* C24: normalization is idempotent: _normalize_result applied to the bundle
\* of a successful normalization, with the same topic_fallback and language
\* (at a later time), succeeds and returns the same bundle
C24_Idempotent ==
    run.pc = "again" =>
       /\ run.again.ok
       /\ run.again.bundle = run.first.bundle

\* a bundle whose title came from a heading, whose meta fields were cut and
\* whose schema was built by the normalizer, normalized again
C24_Witness ==
    /\ run.pc = "again"
    /\ run.shape.title = Absent
    /\ run.shape.schema = Absent
    /\ run.shape.meta = D(<< <<"title", LongMetaTitle>>,
                             <<"description", LongMetaDescription>> >>)
    /\ Len(run.first.bundle.meta.title.s) = MetaTitleMax
    /\ DictGet(run.first.bundle.schema.d, "datePublished") = S(<<Now>>)
    /\ run.again.bundle = run.first.bundle

\* the token-budget parameter a model accepts (run_text, lines 63-75)
AcceptedTokenParam(model) ==
    IF model \in {"gpt-5", "gpt-4o", "gpt-4o-mini"}
    THEN "max_completion_tokens" ELSE "max_tokens"

\* C25: every request run_text sends carries exactly one token-budget
\* parameter, the one the request's model accepts, and no temperature when
\* the request's model (gpt-5) does not support a custom one
C25_RequestParameters ==
    \A i \in 1..Len(run.calls) :
       run.calls[i].op = "chat.completions.create" =>
          /\ run.calls[i].params \cap TokenParams
                = {AcceptedTokenParam(run.calls[i].model)}
          /\ run.calls[i].model = "gpt-5" => "temperature" \notin run.calls[i].params

\* C26: a client operation sends at most one request to the provider per
\* invocation
C26_NoRetryInClient ==
    Len(run.calls) <= 1

\* C27: a request for 2 AI images whose image providers succeed gives a
\* bundle with featured_image set and exactly one content image, which is
\* not the featured URL
C27_TwoImages ==
    (/\ run.pc = "done"
     /\ run.asked = 2 /\ (run.direct \/ run.allowance >= 2)
     /\ run.answers = [pexels |-> "pexels", dalle |-> "dalle"])
       => /\ run.featured_image # NoImage
          /\ Len(run.content_images) = 1
          /\ NotAmong(run.featured_image, run.content_images)

\* the Jobs of the site that were accepted and have completed this month
CompletedJobs == {j \in JobIds : jobs[j].status = "completed"}

\* C28: under any interleaving of create_job requests and background
\* generations, neither the number of Jobs accepted and completed for the
\* site in the month nor the usage counter articles_generated exceeds the
\* plan's monthly_limit
C28_QuotaNeverExceeded ==
    /\ Cardinality(CompletedJobs) <= run.monthly_limit
    /\ usage <= run.monthly_limit

\* a step in which an execution of generate_article returns
Returns == run'.pc = "idle" /\ (run.pc # "idle" \/ nRuns' # nRuns)

\* the execution that returns in this step delivered its article
DeliveredNow ==
    /\ deliveries' # deliveries
    /\ deliveries'[Len(deliveries')].response \in {"200_id", "200"}

\* C29: when generate_article returns for an existing Job, the Job is
\* completed or failed (never left pending or processing); it returns True
\* exactly when the Job ended completed and the article was delivered, and
\* False exactly when the Job ended failed
C29_ReturnMatchesJobState ==
    [][Returns =>
          /\ job'.status \in {"completed", "failed"}
          /\ run'.result = "True" <=> (job'.status = "completed" /\ DeliveredNow)
          /\ run'.result = "False" <=> job'.status = "failed"]_vars

\* the Jobs that process_due_jobs created for ScheduledJob s
JobsOf(s) == {k \in 1..Len(run.created) : run.created[k].scheduled = s}

\* C30: under any interleaving of the process_due_jobs runs of the cron task
\* and of /run_daily, no ScheduledJob has more than one Job created for it,
\* no ScheduledJob is left in processing once the runs have returned, and a
\* completed ScheduledJob is linked to the Job created for it
C30_DispatchedAtMostOnce ==
    /\ \A s \in ScheduledIds : Cardinality(JobsOf(s)) <= 1
    /\ (\A t \in Triggers : run.runs[t].pc = "idle")
          => \A s \in ScheduledIds : run.scheduled[s].status # "processing"
    /\ \A s \in ScheduledIds :
          run.scheduled[s].status = "completed"
             => JobsOf(s) = {run.scheduled[s].job_id}

\* both callers have run: the cron task dispatched one ScheduledJob, and
\* /run_daily, started later, dispatched the other one, whose create_job failed
C30_Witness ==
    /\ \A t \in Triggers : run.runs[t].returned /\ run.runs[t].pc = "idle"
    /\ run.scheduled[1].status = "completed"
    /\ run.created = << [scheduled |-> 1, by |-> "cron"] >>
    /\ run.scheduled[1].job_id = 1
    /\ run.scheduled[2].status = "failed"

====
